---- MODULE Spec2Model ----
(***************************************************************************)
(* Model of oletools/oleobj.py (v0.51, Python 2): the field readers        *)
(* read_uint32, read_uint16, read_LengthPrefixedAnsiString and             *)
(* read_zero_terminated_ansi_string, the record decoders                   *)
(* OleNativeStream and OleObject, and sanitize_filename.                   *)
(*                                                                         *)
(* A byte string is a sequence of integers 0..255.  A byte source is       *)
(* either a bytes string read through an index held by the caller, or a    *)
(* stream with its own read position; the readers take index = None for a  *)
(* stream.  A call that raises is modelled by a result whose exc field     *)
(* names the Python exception.                                             *)
(***************************************************************************)
EXTENDS Integers, Sequences, FiniteSets, TLC

VARIABLES
    data,        \* the bytes of the byte source handed to the readers
    stream,      \* TRUE: data is a stream (has .read), FALSE: a bytes string
    pos,         \* read position of the stream (stays 0 for a bytes string)
    index,       \* the caller's index into a bytes string, None for a stream
    before,      \* index and stream position when the last call was made
    op,          \* name of the last function called
    ret,         \* outcome of the last call
    enc,         \* what the bytes of data were laid out from (never read by the code)
    filename,    \* the declared filename handed to sanitize_filename
    ncalls,      \* number of calls made so far
    pf           \* process_file: its place, its locals and what it has done

vars == <<data, stream, pos, index, before, op, ret, enc, filename, ncalls, pf>>

\* ---------------------------------------------------------------- bounds
\* longest raw byte string enumerated exhaustively
MaxRaw == 4
\* largest declared length of the enumerated length-prefixed strings
MaxL == 2
\* largest index / stream position a scenario starts from
MaxStart == 1
\* number of calls made on one byte source
MaxCalls == 2
\* longest declared filename enumerated
MaxName == 4
\* largest max_length argument enumerated besides 0 and the default
MaxTrunc == 2
\* largest number of streams one compound file lists
MaxStreams == 3

\* ------------------------------------------------------------- constants
None == -1
STR_MAX_LEN == 1024
NULL_CHAR == 0

\* ------------------------------------------------------- Python helpers
Min(a, b) == IF a < b THEN a ELSE b

MinOf(S) == CHOOSE x \in S : \A y \in S : x <= y

\* s[i:j] for 0 <= i (slices clamp to the end of s)
Slice(s, i, j) == SubSeq(s, i + 1, Min(j, Len(s)))

\* s[i:]
SliceFrom(s, i) == SubSeq(s, i + 1, Len(s))

\* stream.read(n) at position p: the bytes returned
ReadBytes(d, p, n) == Slice(d, p, p + n)

\* stream.read(n) at position p: the position afterwards
ReadPos(d, p, n) == Min(Len(d), p + n)

\* a call that returned (value, index), the stream left at position p
Return(v, idx, p) == [exc |-> "", value |-> <<v>>, index |-> idx, pos |-> p]

\* a call that raised e, the stream left at position p
Raise(e, idx, p) == [exc |-> e, value |-> <<>>, index |-> idx, pos |-> p]

\* struct.Struct('<L').unpack / struct.Struct('<H').unpack on the right size
unpack_uint32(b) == b[1] + 256 * b[2] + 65536 * b[3] + 16777216 * b[4]

unpack_uint16(b) == b[1] + 256 * b[2]

\* ---------------------------------------------------------- field readers
\* read_uint32 that pads a short read with zero bytes instead of failing
read_uint32_padded(d, idx, p) ==
    IF idx = None
    THEN LET b == ReadBytes(d, p, 4) \o <<0, 0, 0, 0>>
         IN  Return(unpack_uint32(b), idx, ReadPos(d, p, 4))
    ELSE LET b == Slice(d, idx, idx + 4) \o <<0, 0, 0, 0>>
         IN  Return(unpack_uint32(b), idx + 4, p)

read_uint32(d, idx, p) ==
    IF idx = None
    THEN LET b == ReadBytes(d, p, 4)
             p1 == ReadPos(d, p, 4)
         IN  IF Len(b) # 4 THEN Raise("struct.error", idx, p1)
             ELSE Return(unpack_uint32(b), idx, p1)
    ELSE LET b == Slice(d, idx, idx + 4)
         IN  IF Len(b) # 4 THEN Raise("struct.error", idx, p)
             ELSE Return(unpack_uint32(b), idx + 4, p)

\* read_uint16 with the index advanced by the size of a uint32
read_uint16_wide(d, idx, p) ==
    IF idx = None
    THEN LET b == ReadBytes(d, p, 2)
             p1 == ReadPos(d, p, 4)
         IN  IF Len(b) # 2 THEN Raise("struct.error", idx, p1)
             ELSE Return(unpack_uint16(b), idx, p1)
    ELSE LET b == Slice(d, idx, idx + 2)
         IN  IF Len(b) # 2 THEN Raise("struct.error", idx, p)
             ELSE Return(unpack_uint16(b), idx + 4, p)

read_uint16(d, idx, p) ==
    IF idx = None
    THEN LET b == ReadBytes(d, p, 2)
             p1 == ReadPos(d, p, 2)
         IN  IF Len(b) # 2 THEN Raise("struct.error", idx, p1)
             ELSE Return(unpack_uint16(b), idx, p1)
    ELSE LET b == Slice(d, idx, idx + 2)
         IN  IF Len(b) # 2 THEN Raise("struct.error", idx, p)
             ELSE Return(unpack_uint16(b), idx + 2, p)

read_LengthPrefixedAnsiString(d, idx, p) ==
    LET r == read_uint32(d, idx, p)
    IN  IF r.exc # "" THEN r
        ELSE LET length == r.value[1]
                 i == r.index
                 q == r.pos
             IN  IF length = 0 THEN Return(<<>>, i, q)
                 ELSE IF i = None
                 THEN LET ansi_string == ReadBytes(d, q, length - 1)
                          q1 == ReadPos(d, q, length - 1)
                          null_char == ReadBytes(d, q1, 1)
                          q2 == ReadPos(d, q1, 1)
                      IN  IF null_char # <<NULL_CHAR>>
                          THEN Raise("AssertionError", idx, q2)
                          ELSE Return(ansi_string, i, q2)
                 ELSE LET ansi_string == Slice(d, i, i + length - 1)
                      IN  IF i + length >= Len(d)
                          THEN Raise("IndexError", idx, q)
                          ELSE IF d[i + length + 1] # NULL_CHAR
                          THEN Raise("AssertionError", idx, q)
                          ELSE Return(ansi_string, i + length, q)

\* read_zero_terminated_ansi_string that returns the index of the zero
\* byte (leaves the stream before it) instead of the index after it
read_zero_terminated_ansi_string_at_zero(d, idx, p) ==
    IF idx = None
    THEN LET zeros == {count \in 0 .. Min(STR_MAX_LEN, Len(d) - p) - 1 :
                          d[p + count + 1] = 0}
         IN  IF zeros # {}
             THEN LET count == MinOf(zeros)
                  IN  Return(Slice(d, p, p + count), idx, p + count)
             ELSE Raise("ValueError", idx, ReadPos(d, p, STR_MAX_LEN))
    ELSE LET found == {i \in idx .. Min(idx + STR_MAX_LEN, Len(d)) - 1 :
                          d[i + 1] = 0}
         IN  IF found = {} THEN Raise("ValueError", idx, p)
             ELSE LET end_idx == MinOf(found)
                  IN  Return(Slice(d, idx, end_idx), end_idx, p)

\* read_zero_terminated_ansi_string that scans one byte further
read_zero_terminated_ansi_string_long(d, idx, p) ==
    IF idx = None
    THEN LET zeros == {count \in 0 .. Min(STR_MAX_LEN + 1, Len(d) - p) - 1 :
                          d[p + count + 1] = 0}
         IN  IF zeros # {}
             THEN LET count == MinOf(zeros)
                  IN  Return(Slice(d, p, p + count), idx, p + count + 1)
             ELSE Raise("ValueError", idx, ReadPos(d, p, STR_MAX_LEN + 1))
    ELSE LET found == {i \in idx .. Min(idx + STR_MAX_LEN + 1, Len(d)) - 1 :
                          d[i + 1] = 0}
         IN  IF found = {} THEN Raise("ValueError", idx, p)
             ELSE LET end_idx == MinOf(found)
                  IN  Return(Slice(d, idx, end_idx), end_idx + 1, p)

read_zero_terminated_ansi_string(d, idx, p) ==
    IF idx = None
    THEN LET \* the passes of the loop whose read(1) returns b'\x00'; a read
             \* at or past the end of the stream returns b'' and is none of them
             zeros == {count \in 0 .. Min(STR_MAX_LEN, Len(d) - p) - 1 :
                          d[p + count + 1] = 0}
         IN  IF zeros # {}
             THEN LET count == MinOf(zeros)
                  IN  Return(Slice(d, p, p + count), idx, p + count + 1)
             ELSE Raise("ValueError", idx, ReadPos(d, p, STR_MAX_LEN))
    ELSE LET found == {i \in idx .. Min(idx + STR_MAX_LEN, Len(d)) - 1 :
                          d[i + 1] = 0}
         IN  IF found = {} THEN Raise("ValueError", idx, p)
             ELSE LET end_idx == MinOf(found)
                  IN  Return(Slice(d, idx, end_idx), end_idx + 1, p)

\* ------------------------------------------------------ sanitize_filename
\* a string is a sequence of one-character strings
DEFAULT_REPLACEMENT == "_"
DEFAULT_MAX_LENGTH == 200

\* the characters \w matches (no re.UNICODE, no re.LOCALE)
WordChars ==
    {"a", "b", "c", "d", "e", "f", "g", "h", "i", "j", "k", "l", "m", "n", "o", "p",
     "q", "r", "s", "t", "u", "v", "w", "x", "y", "z",
     "A", "B", "C", "D", "E", "F", "G", "H", "I", "J", "K", "L", "M", "N", "O", "P",
     "Q", "R", "S", "T", "U", "V", "W", "X", "Y", "Z",
     "0", "1", "2", "3", "4", "5", "6", "7", "8", "9", "_"}

\* the characters the pattern [^\w\.\- ] leaves alone
Whitelisted(c) == c \in WordChars \cup {".", "-", " "}

\* the characters str.strip() removes (and the vertical tab); the inputs
\* here hold the space alone
Whitespace == {" ", "\t", "\n", "\r", "\f"}

\* os.path.basename (posixpath): what follows the last '/'
basename(path) ==
    IF \E i \in 1 .. Len(path) : path[i] = "/"
    THEN LET i == CHOOSE i \in 1 .. Len(path) :
                      path[i] = "/" /\ \A j \in i + 1 .. Len(path) : path[j] # "/"
         IN  SubSeq(path, i + 1, Len(path))
    ELSE path

\* str.strip()
RECURSIVE strip(_)
strip(str) ==
    IF str # <<>> /\ Head(str) \in Whitespace THEN strip(Tail(str))
    ELSE IF str # <<>> /\ str[Len(str)] \in Whitespace
    THEN strip(SubSeq(str, 1, Len(str) - 1))
    ELSE str

\* re.sub(r'[^\w\.\- ]', replacement, str)
re_sub(replacement, str) ==
    [i \in 1 .. Len(str) |-> IF Whitelisted(str[i]) THEN str[i] ELSE replacement]

\* c + c in str
HasPair(str, c) == \E i \in 1 .. Len(str) - 1 : str[i] = c /\ str[i + 1] = c

\* str.replace(c + c, c): the occurrences are taken left to right and do
\* not overlap
RECURSIVE replace(_, _)
replace(str, c) ==
    IF Len(str) < 2 THEN str
    ELSE IF str[1] = c /\ str[2] = c
    THEN <<c>> \o replace(SubSeq(str, 3, Len(str)), c)
    ELSE <<str[1]>> \o replace(Tail(str), c)

\* while c + c in str: str = str.replace(c + c, c)
RECURSIVE collapse(_, _)
collapse(str, c) == IF HasPair(str, c) THEN collapse(replace(str, c), c) ELSE str

NONAME == <<"N", "O", "N", "A", "M", "E">>

\* sanitize_filename with the length limit applied before the placeholder
\* for an empty input instead of after it
sanitize_filename_cut_early(fname, replacement, max_length) ==
    LET basepath == strip(basename(fname))
        sane1 == re_sub(replacement, basepath)
        sane2 == collapse(sane1, ".")
        sane3 == collapse(sane2, " ")
        sane4 == IF max_length # 0 THEN Slice(sane3, 0, max_length) ELSE sane3
    IN  IF Len(fname) = 0 THEN NONAME ELSE sane4

sanitize_filename(fname, replacement, max_length) ==
    LET basepath == strip(basename(fname))
        sane1 == re_sub(replacement, basepath)
        sane2 == collapse(sane1, ".")
        sane3 == collapse(sane2, " ")
        sane4 == IF Len(fname) = 0 THEN NONAME ELSE sane3
    IN  IF max_length # 0 THEN Slice(sane4, 0, max_length) ELSE sane4

\* ------------------------------------------------------- OleNativeStream
\* an attribute holds <<>> for None and <<v>> for the value v
NativeAttrs ==
    {"native_data_size", "unknown_short", "filename", "src_path", "unknown_long_1",
     "unknown_long_2", "temp_path", "actual_size", "data", "package"}

\* self.data of a parse that was given a stream: the stream itself, not bytes
StreamObject == "<stream>"

\* where the next field starts: the index into a bytes string, or the
\* position of the stream
Cursor(st) == IF st.index = None THEN st.pos ELSE st.index

\* the value of an expression, computed once: S is a one-element set
The(S) == CHOOSE x \in S : TRUE

\* the call reader(data, index)
ReadField(reader, d, idx, p) ==
    CASE reader = "read_uint32" -> read_uint32(d, idx, p)
      [] reader = "read_uint16" -> read_uint16(d, idx, p)
      [] reader = "read_LengthPrefixedAnsiString" ->
             read_LengthPrefixedAnsiString(d, idx, p)
      [] reader = "read_zero_terminated_ansi_string" ->
             read_zero_terminated_ansi_string(d, idx, p)

\* one statement "self.<field>, index = reader(data, index)" of a parse
\* method, run in the state prev the statements before it left; once an
\* exception is raised the statements after it do nothing
ParseStep(prev, d, field, reader) ==
    The({IF st.exc # "" THEN st
         ELSE The({IF r.exc # ""
                   THEN [st EXCEPT !.exc = r.exc, !.pos = r.pos]
                   ELSE [st EXCEPT !.index = r.index, !.pos = r.pos,
                                   !.obj[field] = r.value,
                                   !.reads = Append(@, <<field, Cursor(st)>>)] :
                   r \in {ReadField(reader, d, st.index, st.pos)}}) :
         st \in {prev}})

\* "except IOError, struct.error:" is Python 2 for "except IOError as
\* struct.error": the clause catches IOError alone
Caught(exc) == exc = "IOError"

\* the try statement that ends OleNativeStream.parse, r being the outcome of
\* its read_uint32 call
OleNativeStream_parse_data(st, d, r) ==
    IF r.exc = ""
    THEN [st EXCEPT
             !.index = r.index, !.pos = r.pos,
             !.obj["actual_size"] = r.value,
             !.obj["data"] =
                 IF r.index = None THEN <<StreamObject>>
                 ELSE <<Slice(d, r.index, r.index + r.value[1])>>,
             !.reads = @ \o <<<<"actual_size", Cursor(st)>>, <<"data", Cursor(r)>>>>]
    ELSE IF Caught(r.exc)
    THEN [st EXCEPT !.pos = r.pos,
                    !.obj["actual_size"] = <<0>>,
                    !.obj["data"] = <<>>]
    ELSE [st EXCEPT !.exc = r.exc, !.pos = r.pos]

OleNativeStream_parse(self, d, strm, p) ==
    LET s0 == [exc |-> "", index |-> IF strm THEN None ELSE 0, pos |-> p,
               obj |-> self, reads |-> <<>>]
        s1 == IF ~self["package"][1]
              THEN ParseStep(s0, d, "native_data_size", "read_uint32")
              ELSE s0
        s2 == ParseStep(s1, d, "unknown_short", "read_uint16")
        s3 == ParseStep(s2, d, "filename", "read_zero_terminated_ansi_string")
        s4 == ParseStep(s3, d, "src_path", "read_zero_terminated_ansi_string")
        s5 == ParseStep(s4, d, "unknown_long_1", "read_uint32")
        s6 == ParseStep(s5, d, "unknown_long_2", "read_uint32")
        s7 == ParseStep(s6, d, "temp_path", "read_zero_terminated_ansi_string")
    IN  The({IF st.exc # "" THEN st
             ELSE The({OleNativeStream_parse_data(st, d, r) :
                       r \in {read_uint32(d, st.index, st.pos)}}) :
             st \in {s7}})

\* OleNativeStream(bindata, package): bindata is the byte source
OleNativeStream_init(bindata, strm, p, package) ==
    LET self == [a \in NativeAttrs |-> IF a = "package" THEN <<package>> ELSE <<>>]
    IN  OleNativeStream_parse(self, bindata, strm, p)

\* ------------------------------------------------------------- OleObject
TYPE_LINKED == 1
TYPE_EMBEDDED == 2

OleAttrs ==
    {"ole_version", "format_id", "class_name", "topic_name", "item_name", "data",
     "data_size", "extra_data"}

\* OleObject(bindata): the constructor sets every attribute to None and
\* returns; it makes no call to parse
OleObject_init(bindata, strm, p) ==
    [exc |-> "", index |-> None, pos |-> p, obj |-> [a \in OleAttrs |-> <<>>],
     reads |-> <<>>]

\* the statements of OleObject.parse that follow item_name, for an
\* Embedded object
OleObject_parse_data(prev, d) ==
    The({IF st.exc # "" THEN st
         ELSE LET size == st.obj["data_size"][1]
                  payload == Slice(d, st.index, st.index + size)
              IN  IF Len(payload) # size
                  THEN [st EXCEPT !.exc = "AssertionError",
                                  !.obj["data"] = <<payload>>,
                                  !.reads = Append(@, <<"data", st.index>>)]
                  ELSE [st EXCEPT
                           !.obj["data"] = <<payload>>,
                           !.obj["extra_data"] = <<SliceFrom(d, st.index + size)>>,
                           !.reads = @ \o <<<<"data", st.index>>,
                                            <<"extra_data", st.index + size>>>>] :
         st \in {prev}})

\* the assert statement that follows format_id
OleObject_parse_format(prev) ==
    The({IF st.exc = "" /\ st.obj["format_id"][1] \notin {TYPE_EMBEDDED, TYPE_LINKED}
         THEN [st EXCEPT !.exc = "AssertionError"]
         ELSE st :
         st \in {prev}})

\* the statements of OleObject.parse, run with its local index bound to idx
OleObject_parse_from(self, d, idx, p) ==
    LET s0 == [exc |-> "", index |-> idx, pos |-> p, obj |-> self, reads |-> <<>>]
        s1 == ParseStep(s0, d, "ole_version", "read_uint32")
        s2 == ParseStep(s1, d, "format_id", "read_uint32")
        s3 == OleObject_parse_format(s2)
        s4 == ParseStep(s3, d, "class_name", "read_LengthPrefixedAnsiString")
        s5 == ParseStep(s4, d, "topic_name", "read_LengthPrefixedAnsiString")
        s6 == ParseStep(s5, d, "item_name", "read_LengthPrefixedAnsiString")
    IN  The({IF st.exc # "" \/ st.obj["format_id"][1] # TYPE_EMBEDDED THEN st
             ELSE OleObject_parse_data(ParseStep(st, d, "data_size", "read_uint32"), d) :
             st \in {s6}})

\* OleObject.parse(data): its first statement reads the local name index,
\* which no statement of parse has assigned
OleObject_parse(self, d, strm, p) ==
    LET index_is_bound == FALSE
    IN  IF ~index_is_bound
        THEN [exc |-> "UnboundLocalError", index |-> None, pos |-> p, obj |-> self,
              reads |-> <<>>]
        ELSE OleObject_parse_from(self, d, 0, p)

\* ---------------------------------------------------------------- inputs
\* every byte string over B of length at most n
BytesUpTo(B, n) == UNION {[1 .. k -> B] : k \in 0 .. n}

\* n bytes of value b
Fill(b, n) == [i \in 1 .. n |-> b]

\* little-endian layout of an unsigned integer
u32(v) == <<v % 256, (v \div 256) % 256, (v \div 65536) % 256, (v \div 16777216) % 256>>

u16(v) == <<v % 256, (v \div 256) % 256>>

\* short byte strings, every one of them
RawInputs == {[kind |-> "raw", bytes |-> b] : b \in BytesUpTo({0, 1, 2}, MaxRaw)}

\* a 4-byte length L followed by every short tail
LpsInputs ==
    {[kind |-> "lps", L |-> L, tail |-> t, bytes |-> u32(L) \o t] :
        L \in 0 .. MaxL, t \in BytesUpTo({0, 1}, MaxL + 1)}

\* n non-zero bytes around the scan bound, then a short tail
LongInputs ==
    {[kind |-> "long", n |-> n, tail |-> t, bytes |-> Fill(1, n) \o t] :
        n \in STR_MAX_LEN - 2 .. STR_MAX_LEN + 1, t \in {<<>>, <<0>>, <<0, 2>>}}

\* the field values a Native Stream is laid out from
NativeRecords ==
    [native_data_size : {5}, unknown_short : {2},
     filename : {<<>>, <<1>>, <<1, 2>>, Fill(1, STR_MAX_LEN - 1)}, src_path : {<<2>>},
     unknown_long_1 : {513}, unknown_long_2 : {1},
     temp_path : {<<>>, <<1>>}, payload : {<<>>, <<3>>, <<0, 4>>}]

\* what follows the terminator of temp_path:
\*   full   actual_size and exactly that many payload bytes
\*   slack  as full, followed by one more byte
\*   link   nothing: the source ends where actual_size would start
\*   cut    the first two bytes of actual_size only
\*   short  an actual_size one larger than the payload bytes that follow
NativeLayouts == {"full", "slack", "link", "cut", "short"}

NativeTail(r, layout) ==
    CASE layout = "full" -> u32(Len(r.payload)) \o r.payload
      [] layout = "slack" -> u32(Len(r.payload)) \o r.payload \o <<7>>
      [] layout = "link" -> <<>>
      [] layout = "cut" -> SubSeq(u32(Len(r.payload)), 1, 2)
      [] layout = "short" -> u32(Len(r.payload) + 1) \o r.payload

NativeBytes(r, package, layout) ==
    (IF package THEN <<>> ELSE u32(r.native_data_size))
    \o u16(r.unknown_short)
    \o r.filename \o <<0>>
    \o r.src_path \o <<0>>
    \o u32(r.unknown_long_1) \o u32(r.unknown_long_2)
    \o r.temp_path \o <<0>>
    \o NativeTail(r, layout)

NativeInputs ==
    {[kind |-> "native", rec |-> r, package |-> k, layout |-> l,
      bytes |-> NativeBytes(r, k, l)] :
        r \in NativeRecords, k \in BOOLEAN, l \in NativeLayouts}

\* a length-prefixed ANSI string: the length counts the terminator
lps(str) == IF str = <<>> THEN u32(0) ELSE u32(Len(str) + 1) \o str \o <<0>>

\* the field values an OLE 1.0 Object is laid out from
OleRecords ==
    [ole_version : {1}, format_id : {1, 2, 3},
     class_name : {<<>>, <<1>>}, topic_name : {<<>>}, item_name : {<<2>>},
     payload : {<<>>, <<5>>}]

\* what follows item_name when the format is not Linked:
\*   full   data_size and exactly that many payload bytes
\*   slack  as full, followed by two more bytes
\*   short  a data_size one larger than the payload bytes that follow
OleLayouts == {"full", "slack", "short"}

OleTail(r, layout) ==
    CASE layout = "full" -> u32(Len(r.payload)) \o r.payload
      [] layout = "slack" -> u32(Len(r.payload)) \o r.payload \o <<8, 9>>
      [] layout = "short" -> u32(Len(r.payload) + 1) \o r.payload

OleBytes(r, layout) ==
    u32(r.ole_version) \o u32(r.format_id)
    \o lps(r.class_name) \o lps(r.topic_name) \o lps(r.item_name)
    \o (IF r.format_id = 1 THEN <<>> ELSE OleTail(r, layout))

OleInputs ==
    {[kind |-> "ole", rec |-> r, layout |-> l, bytes |-> OleBytes(r, l)] :
        r \in OleRecords, l \in OleLayouts}

Inputs == RawInputs \cup LpsInputs \cup LongInputs \cup NativeInputs \cup OleInputs

\* the declared filenames: every short string over these characters; a
\* scenario about a filename has an empty bytes string as its byte source
NameChars == {"a", ".", " ", "/", "*"}

NameInputs ==
    {[kind |-> "name", name |-> n, bytes |-> <<>>] : n \in BytesUpTo(NameChars, MaxName)}

\* the max_length arguments: 0, the small ones, the default
MaxLengths == 0 .. MaxTrunc \cup {DEFAULT_MAX_LENGTH}

\* ------------------------------------------------------------------ state
\* process_file has not been called
NotCalled == [pc |-> "idle"]

Init ==
    /\ enc \in Inputs \cup NameInputs
    /\ data = enc.bytes
    /\ filename = IF enc.kind = "name" THEN enc.name ELSE <<>>
    /\ stream \in (IF enc.kind = "name" THEN {FALSE} ELSE BOOLEAN)
    /\ \E start \in 0 .. Min(MaxStart, Len(data)) :
           /\ pos = IF stream THEN start ELSE 0
           /\ index = IF stream THEN None ELSE start
    /\ before = [index |-> index, pos |-> pos]
    /\ op = "init"
    /\ ret = Raise("", index, pos)
    /\ ncalls = 0
    /\ pf = NotCalled

\* the caller runs a reader at its index, with outcome r, and keeps the
\* index it returns
CallReader(name, r) ==
    /\ ncalls < MaxCalls
    /\ ncalls' = ncalls + 1
    /\ op' = name
    /\ ret' = r
    /\ before' = [index |-> index, pos |-> pos]
    /\ index' = r.index
    /\ pos' = r.pos
    /\ UNCHANGED <<data, stream, enc, filename, pf>>

Call_read_uint32 == CallReader("read_uint32", read_uint32(data, index, pos))

Call_read_uint16 == CallReader("read_uint16", read_uint16(data, index, pos))

Call_read_LengthPrefixedAnsiString ==
    CallReader("read_LengthPrefixedAnsiString",
               read_LengthPrefixedAnsiString(data, index, pos))

Call_read_zero_terminated_ansi_string ==
    CallReader("read_zero_terminated_ansi_string",
               read_zero_terminated_ansi_string(data, index, pos))

\* the caller constructs or parses a record from the byte source; its own
\* index is not involved
CallDecoder(name, st) ==
    /\ ncalls < MaxCalls
    /\ ncalls' = ncalls + 1
    /\ op' = name
    /\ ret' = [exc |-> st.exc, value |-> <<>>, index |-> st.index, pos |-> st.pos,
               obj |-> st.obj, reads |-> st.reads]
    /\ before' = [index |-> index, pos |-> pos]
    /\ pos' = st.pos
    /\ UNCHANGED <<data, stream, index, enc, filename, pf>>

Call_OleNativeStream ==
    \E package \in BOOLEAN :
        CallDecoder("OleNativeStream", OleNativeStream_init(data, stream, pos, package))

Call_OleObject == CallDecoder("OleObject", OleObject_init(data, stream, pos))

Call_OleObject_parse ==
    CallDecoder("OleObject.parse",
                OleObject_parse(OleObject_init(data, stream, pos).obj, data, stream, pos))

\* sanitize_filename(filename, max_length=max_length), replacement left
\* at its default
Call_sanitize_filename ==
    \E max_length \in MaxLengths :
        /\ ncalls < MaxCalls
        /\ ncalls' = ncalls + 1
        /\ op' = "sanitize_filename"
        /\ ret' = [exc |-> "", index |-> index, pos |-> pos, max_length |-> max_length,
                   value |-> <<sanitize_filename(filename, DEFAULT_REPLACEMENT, max_length)>>]
        /\ before' = [index |-> index, pos |-> pos]
        /\ UNCHANGED <<data, stream, pos, index, enc, filename, pf>>

Next ==
    \/ Call_read_uint32
    \/ Call_read_uint16
    \/ Call_read_LengthPrefixedAnsiString
    \/ Call_read_zero_terminated_ansi_string
    \/ Call_OleNativeStream
    \/ Call_OleObject
    \/ Call_OleObject_parse
    \/ Call_sanitize_filename

Spec == Init /\ [][Next]_vars

\* ------------------------------------------------------------ process_file
\* the name of the streams process_file looks for (its first character is
\* the byte 01, written <01> here)
OLE10NATIVE == <<"<01>Ole10Native">>

\* the character of a byte of a decoded filename; a byte that is neither of
\* these is a control character here, which sanitize_filename treats as the
\* not whitelisted "*"
chr(b) ==
    CASE b = 32 -> " "
      [] b = 46 -> "."
      [] b = 47 -> "/"
      [] b = 97 -> "a"
      [] OTHER -> "*"

\* a decoded bytes string as a string of characters
Chars(bytes) == [i \in 1 .. Len(bytes) |-> chr(bytes[i])]

\* os.path.dirname (posixpath)
dirname(path) ==
    LET slashes == {i \in 1 .. Len(path) : path[i] = "/"}
        head == IF slashes = {} THEN <<>>
                ELSE SubSeq(path, 1, CHOOSE i \in slashes : \A j \in slashes : j <= i)
        others == {i \in 1 .. Len(head) : head[i] # "/"}
    IN  IF others = {} THEN head
        ELSE SubSeq(head, 1, CHOOSE i \in others : \A j \in others : j <= i)

\* os.path.join (posixpath) of two components
path_join(a, b) ==
    IF b # <<>> /\ b[1] = "/" THEN b
    ELSE IF a = <<>> \/ a[Len(a)] = "/" THEN a \o b
    ELSE a \o <<"/">> \o b

\* '%03d' % n
Format03d(n) ==
    LET digit == <<"0", "1", "2", "3", "4", "5", "6", "7", "8", "9">>
        width == IF n < 1000 THEN 3 ELSE IF n < 10000 THEN 4 ELSE 5
    IN  [k \in 1 .. width |-> digit[((n \div (10 ^ (width - k))) % 10) + 1]]

\* the exceptions "except Exception:" catches: every exception the decoder,
\* open and write raise is one
IsException(exc) ==
    exc \in {"struct.error", "ValueError", "IndexError", "AssertionError",
             "UnboundLocalError", "IOError", "TypeError"}

\* the statements in the try block of process_native_stream: the exception
\* they raise (none: ""), and the file they wrote; can_write tells whether
\* open(fname, 'wb').write succeeds
process_native_stream_try(objdata, fname_prefix, idx, can_write) ==
    The({IF opkg.exc # "" THEN [exc |-> opkg.exc, saved |-> <<>>]
         ELSE IF ~can_write THEN [exc |-> "IOError", saved |-> <<>>]
         ELSE IF opkg.obj["data"] = <<>> THEN [exc |-> "TypeError", saved |-> <<>>]
         ELSE [exc |-> "",
               saved |-> <<[fname |->
                                IF /\ opkg.obj["filename"] # <<>>
                                   /\ opkg.obj["filename"][1] # <<>>
                                THEN fname_prefix \o <<"_">>
                                     \o sanitize_filename(
                                            Chars(opkg.obj["filename"][1]),
                                            DEFAULT_REPLACEMENT, DEFAULT_MAX_LENGTH)
                                ELSE fname_prefix
                                     \o <<"_", "o", "b", "j", "e", "c", "t", "_">>
                                     \o Format03d(idx)
                                     \o <<".", "n", "o", "n", "a", "m", "e">>,
                             data |-> opkg.obj["data"][1]]>>] :
         opkg \in {OleNativeStream_init(objdata, FALSE, 0, FALSE)}})

\* process_native_stream that lets the exception of its try block escape
process_native_stream_unguarded(objdata, fname_prefix, idx, can_open, can_write) ==
    IF ~can_open THEN [exc |-> "IOError", caught |-> "", saved |-> <<>>]
    ELSE The({[exc |-> t.exc, caught |-> "", saved |-> t.saved] :
              t \in {process_native_stream_try(objdata, fname_prefix, idx,
                                               can_write)}})

\* process_native_stream(ole, stream, fname_prefix, index), objdata being
\* the bytes ole.openstream(stream).read() returns when the stream can be
\* read (can_open); the read is made before the try block
process_native_stream(objdata, fname_prefix, idx, can_open, can_write) ==
    IF ~can_open THEN [exc |-> "IOError", caught |-> "", saved |-> <<>>]
    ELSE The({IF IsException(t.exc)
              THEN [exc |-> "", caught |-> t.exc, saved |-> <<>>]
              ELSE [exc |-> t.exc, caught |-> "", saved |-> t.saved] :
              t \in {process_native_stream_try(objdata, fname_prefix, idx,
                                               can_write)}})

\* the record the streams of the listings are laid out from
ListedRecord ==
    [native_data_size |-> 5, unknown_short |-> 2, filename |-> <<97, 47, 1>>,
     src_path |-> <<2>>, unknown_long_1 |-> 513, unknown_long_2 |-> 1,
     temp_path |-> <<1>>, payload |-> <<3>>]

\* the streams a compound file may list: Ole10Native streams that decode
\* (with a filename and without one), that end where actual_size would start,
\* that hold no byte at all or hold an unterminated filename, and a stream of
\* another name
ListedStreams ==
    {[path |-> <<"ObjectPool">> \o OLE10NATIVE, objdata |-> d] :
        d \in {NativeBytes(ListedRecord, FALSE, "full"),
               NativeBytes([ListedRecord EXCEPT !.filename = <<>>], FALSE, "full"),
               NativeBytes(ListedRecord, FALSE, "link"),
               <<>>,
               <<5, 0, 0, 0, 2, 0, 97>>}}
    \cup {[path |-> <<"WordDocument">>, objdata |-> <<1, 2>>]}

\* what ole.listdir() returns, stream by stream
Listings == UNION {[1 .. n -> ListedStreams] : n \in 0 .. MaxStreams}

\* a call process_file(container, filename, data) on one compound file, at
\* its first statement; no reader is being called
InitFile ==
    /\ enc = [kind |-> "file", bytes |-> <<>>]
    /\ data = <<>>
    /\ stream = FALSE
    /\ pos = 0
    /\ index = 0
    /\ before = [index |-> 0, pos |-> 0]
    /\ op = "process_file"
    /\ ret = Raise("", 0, 0)
    /\ ncalls = 0
    /\ filename \in {<<"a">>, <<"d", "/", "a", "*">>}
    /\ \E listing \in Listings :
           pf = [pc |-> "start", streams |-> listing, i |-> 0, index |-> 0,
                 fname_prefix |-> <<>>, handed |-> <<>>, saved |-> <<>>]

\* the loop over ole.listdir() has no stream left: process_file returns
LoopEnd(i, listing) == IF i = Len(listing) THEN "done" ELSE "loop"

\* process_file up to its loops (no output_dir given): the prefix of the
\* files to write, and index = 1
process_file_start ==
    /\ pf.pc = "start"
    /\ pf' = [pf EXCEPT
                 !.fname_prefix =
                     path_join(dirname(filename),
                               sanitize_filename(filename, DEFAULT_REPLACEMENT,
                                                 DEFAULT_MAX_LENGTH)),
                 !.index = 1,
                 !.pc = LoopEnd(0, pf.streams)]
    /\ UNCHANGED <<data, stream, pos, index, before, op, ret, enc, filename, ncalls>>

\* one pass of "for stream in ole.listdir()": an Ole10Native stream is
\* handed to process_native_stream and index is incremented; an exception
\* that leaves process_native_stream (its stream cannot be read) leaves
\* process_file too
process_file_stream ==
    /\ pf.pc = "loop"
    /\ \E can_open \in BOOLEAN :
       \E can_write \in BOOLEAN :
       \E i \in {pf.i + 1} :
       \E entry \in {pf.streams[i]} :
          IF entry.path[Len(entry.path)] # OLE10NATIVE[1]
          THEN pf' = [pf EXCEPT !.i = i, !.pc = LoopEnd(i, pf.streams)]
          ELSE \E r \in {process_native_stream(entry.objdata, pf.fname_prefix,
                                                pf.index, can_open, can_write)} :
                  pf' = [pf EXCEPT
                            !.i = i,
                            !.handed = Append(@, [at |-> i, index |-> pf.index,
                                                  caught |-> r.caught,
                                                  raised |-> r.exc]),
                            !.saved = @ \o r.saved,
                            !.index = IF r.exc = "" THEN @ + 1 ELSE @,
                            !.pc = IF r.exc = "" THEN LoopEnd(i, pf.streams)
                                   ELSE "raised"]
    /\ UNCHANGED <<data, stream, pos, index, before, op, ret, enc, filename, ncalls>>

NextFile ==
    \/ process_file_start
    \/ process_file_stream

SpecFile == InitFile /\ [][NextFile]_vars

\* ------------------------------------------------------ process_file claims
\* the places in the listing, among the first n, of the Ole10Native streams
NativePlaces(n) ==
    {i \in 1 .. n : pf.streams[i].path[Len(pf.streams[i].path)] = OLE10NATIVE[1]}

\* the call of process_native_stream that handed[k] records failed in the
\* decode or in the write of the payload
DecodeFailed(k) == pf.handed[k].caught # ""

\* C13: a failing decode or write of one Ole10Native stream never ends
\* process_file: the streams handed to process_native_stream so far are
\* exactly the Ole10Native streams among those visited, in listing order, the
\* k-th of them with index k whether the ones before it failed or not; no
\* exception leaves the call of a stream whose decode or write failed;
\* process_file returns only after every listed stream was visited and ends
\* early only when a stream could not be read at all.
C13_SiblingsStillDecoded ==
    /\ pf.pc \in {"start", "loop", "done", "raised"}
    /\ pf.pc = "done" => pf.i = Len(pf.streams)
    /\ Len(pf.handed) = Cardinality(NativePlaces(pf.i))
    /\ \A k \in 1 .. Len(pf.handed) :
          /\ pf.handed[k].at \in NativePlaces(pf.i)
          /\ pf.handed[k].index = k
          /\ k > 1 => pf.handed[k - 1].at < pf.handed[k].at
          /\ DecodeFailed(k) => pf.handed[k].raised = ""
          /\ pf.handed[k].raised # "" =>
                 /\ k = Len(pf.handed)
                 /\ pf.pc = "raised"
                 /\ pf.handed[k].raised = "IOError"
    /\ pf.pc = "raised" =>
          /\ pf.handed # <<>>
          /\ pf.handed[Len(pf.handed)].raised = "IOError"
          /\ ~DecodeFailed(Len(pf.handed))
    /\ pf.pc \in {"loop", "done"} => pf.index = Len(pf.handed) + 1

\* process_file has returned after a stream whose decode failed was followed
\* by a stream that was decoded and saved
C13_Witness ==
    /\ pf.pc = "done"
    /\ \E k \in 1 .. Len(pf.handed) - 1 :
          /\ pf.handed[k].caught = "struct.error"
          /\ pf.handed[k + 1].caught = ""
    /\ pf.saved # <<>>

\* ------------------------------------------------- OleNativeStream claims
\* the last call constructed an OleNativeStream from a bytes string (from a
\* stream when strm) laid out as a Native Stream in one of the given
\* layouts, with the package flag the layout was made for
NativeCase(strm, layouts) ==
    /\ op = "OleNativeStream"
    /\ stream = strm
    /\ before.pos = 0
    /\ enc.kind = "native"
    /\ enc.layout \in layouts
    /\ ret.obj["package"] = <<enc.package>>

\* where each field of the layout starts, in reading order
NativeOffsets(r, package) ==
    LET o1 == IF package THEN 0 ELSE 4
        o2 == o1 + 2
        o3 == o2 + Len(r.filename) + 1
        o4 == o3 + Len(r.src_path) + 1
        o5 == o4 + 4
        o6 == o5 + 4
        o7 == o6 + Len(r.temp_path) + 1
    IN  (IF package THEN <<>> ELSE <<<<"native_data_size", 0>>>>)
        \o <<<<"unknown_short", o1>>, <<"filename", o2>>, <<"src_path", o3>>,
             <<"unknown_long_1", o4>>, <<"unknown_long_2", o5>>, <<"temp_path", o6>>,
             <<"actual_size", o7>>, <<"data", o7 + 4>>>>

\* C1: parsing a well-formed Native Stream held in a bytes string reads
\* [native_data_size unless package], unknown_short, filename, src_path,
\* unknown_long_1, unknown_long_2, temp_path, actual_size and the payload in
\* that order, each field starting where the one before it ended, and every
\* decoded value equals the value laid out; with package set no size field is
\* read and unknown_short is read at offset 0.
C1_NativeStreamDecodesLayout ==
    NativeCase(FALSE, {"full", "slack"}) =>
        /\ ret.exc = ""
        /\ ret.reads = NativeOffsets(enc.rec, enc.package)
        /\ ret.obj["native_data_size"] =
               (IF enc.package THEN <<>> ELSE <<enc.rec.native_data_size>>)
        /\ ret.obj["unknown_short"] = <<enc.rec.unknown_short>>
        /\ ret.obj["filename"] = <<enc.rec.filename>>
        /\ ret.obj["src_path"] = <<enc.rec.src_path>>
        /\ ret.obj["unknown_long_1"] = <<enc.rec.unknown_long_1>>
        /\ ret.obj["unknown_long_2"] = <<enc.rec.unknown_long_2>>
        /\ ret.obj["temp_path"] = <<enc.rec.temp_path>>
        /\ ret.obj["actual_size"] = <<Len(enc.rec.payload)>>
        /\ ret.obj["data"] = <<enc.rec.payload>>

\* a package-style stream with a two-byte payload and slack after it has
\* been decoded
C1_Witness ==
    /\ NativeCase(FALSE, {"slack"})
    /\ enc.package
    /\ enc.rec.filename = <<1, 2>>
    /\ enc.rec.payload = <<0, 4>>
    /\ ret.exc = ""
    /\ ret.reads[1] = <<"unknown_short", 0>>

\* C2: when the source ends exactly where actual_size would start, the
\* decode succeeds with actual_size = 0 and no payload (a link-only object).
C2_LinkOnlyIsSuccess ==
    (\E strm \in BOOLEAN : NativeCase(strm, {"link"})) =>
        /\ ret.exc = ""
        /\ ret.obj["actual_size"] = <<0>>
        /\ ret.obj["data"] = <<>>

\* C3: on a bytes string, an actual_size larger than the bytes that follow
\* it is a decode error, and every successful decode with a nonzero
\* actual_size holds a payload of exactly actual_size bytes.
C3_SizeOutOfBounds ==
    /\ NativeCase(FALSE, {"short"}) => ret.exc # ""
    /\ (/\ op = "OleNativeStream"
        /\ ~stream
        /\ ret.exc = ""
        /\ ret.obj["actual_size"] # <<0>>)
       => Len(ret.obj["data"][1]) = ret.obj["actual_size"][1]

\* ---------------------------------------------------- field reader claims
\* where the last call started reading, and where the source stands now
CursorBefore == IF stream THEN before.pos ELSE before.index

CursorNow == IF stream THEN pos ELSE index

\* the bytes left in the source when the last call was made
Remaining == Len(data) - CursorBefore

\* C4: for a declared length L > 0, read_LengthPrefixedAnsiString consumes
\* the 4-byte prefix and exactly L bytes, returns the first L-1 of them,
\* succeeds whenever at least L bytes follow the prefix and the L-th of them
\* is null, and fails when the L-th is not null; for L = 0 it returns the
\* empty string and consumes the prefix alone.
C4_LengthPrefixedString ==
    (/\ op = "read_LengthPrefixedAnsiString"
     /\ enc.kind = "lps"
     /\ CursorBefore = 0) =>
        /\ enc.L = 0 =>
              /\ ret.exc = ""
              /\ ret.value = <<<<>>>>
              /\ CursorNow = 4
        /\ (enc.L > 0 /\ Len(enc.tail) >= enc.L /\ enc.tail[enc.L] = 0) =>
              /\ ret.exc = ""
              /\ ret.value = <<SubSeq(enc.tail, 1, enc.L - 1)>>
              /\ CursorNow = 4 + enc.L
        /\ (enc.L > 0 /\ Len(enc.tail) >= enc.L /\ enc.tail[enc.L] # 0) =>
              ret.exc # ""

\* the offset of the first zero byte at or after the cursor (the length of
\* data when there is none)
FirstZero ==
    LET zs == {i \in CursorBefore .. Len(data) - 1 : data[i + 1] = 0}
    IN  IF zs = {} THEN Len(data) ELSE MinOf(zs)

\* the last call read a zero-terminated string of at most n bytes (the
\* terminator not counted) that the source holds at the cursor
TerminatedWithin(n) ==
    /\ op = "read_zero_terminated_ansi_string"
    /\ FirstZero < Len(data)
    /\ FirstZero - CursorBefore <= n

\* the call returned the bytes before the terminator and left the cursor one
\* past the terminator
ReturnedString ==
    /\ ret.exc = ""
    /\ ret.value = <<Slice(data, CursorBefore, FirstZero)>>
    /\ CursorNow = FirstZero + 1

C6_ScanIsBounded ==
    op = "read_zero_terminated_ansi_string" =>
        /\ FirstZero - CursorBefore >= STR_MAX_LEN => ret.exc = "ValueError"
        /\ FirstZero = Len(data) => ret.exc = "ValueError"
        /\ ret.exc = "" => Len(ret.value[1]) < STR_MAX_LEN
        /\ CursorNow - CursorBefore <= STR_MAX_LEN

\* a read has failed although a null byte follows 1024 non-null bytes
C6_Witness ==
    /\ op = "read_zero_terminated_ansi_string"
    /\ FirstZero < Len(data)
    /\ FirstZero - CursorBefore = STR_MAX_LEN
    /\ ret.exc = "ValueError"

\* the last call was read_uint32 / read_uint16 with fewer than 4 / 2 bytes
\* left in the source
ShortIntegerRead ==
    \/ op = "read_uint32" /\ Remaining < 4
    \/ op = "read_uint16" /\ Remaining < 2

\* C7 as claimed: a short read_uint32 / read_uint16 fails, returns no value,
\* and leaves the index of a bytes string and the position of a stream where
\* they were.
C7_AsClaimed ==
    ShortIntegerRead =>
        /\ ret.exc = "struct.error"
        /\ ret.value = <<>>
        /\ index = before.index
        /\ pos = before.pos

\* C7: a short read_uint32 / read_uint16 fails and returns no value; the
\* index of a bytes string is where it was, and a stream has been read to
\* its end (the fewer than 4 / 2 bytes that were left are consumed).
C7_ShortReadFails ==
    ShortIntegerRead =>
        /\ ret.exc = "struct.error"
        /\ ret.value = <<>>
        /\ index = before.index
        /\ pos = IF stream THEN Len(data) ELSE before.pos

\* a read_uint32 on a stream with one to three bytes left has failed
C7_Witness ==
    /\ op = "read_uint32"
    /\ stream
    /\ Remaining \in 1 .. 3
    /\ ret.exc = "struct.error"

\* ------------------------------------------------------- OleObject claims
\* the last call was OleObject.parse on a bytes string laid out as an OLE
\* 1.0 Object
OleParseCase ==
    /\ op = "OleObject.parse"
    /\ ~stream
    /\ enc.kind = "ole"

\* the parse was rejected because the declared data_size exceeds the bytes
\* left: the assertion after the payload slice failed
SizeOutOfBounds ==
    /\ ret.exc = "AssertionError"
    /\ ret.obj["data_size"] # <<>>

\* the parse was rejected because format_id is neither Linked nor Embedded:
\* the assertion after format_id failed, before any name was read
UnknownFormatId ==
    /\ ret.exc = "AssertionError"
    /\ ret.obj["format_id"] \notin {<<>>, <<TYPE_LINKED>>, <<TYPE_EMBEDDED>>}
    /\ ret.obj["class_name"] = <<>>
    /\ ret.obj["data"] = <<>>

\* C8: with a well-formed header and names, an Embedded object whose
\* data_size exceeds the bytes that follow it is rejected with
\* SizeOutOfBounds, and the same bytes with format_id = 3 are rejected with
\* UnknownFormatId before any name or payload is decoded.
C8_OleObjectRejections ==
    OleParseCase =>
        /\ (enc.rec.format_id = TYPE_EMBEDDED /\ enc.layout = "short") => SizeOutOfBounds
        /\ enc.rec.format_id \notin {TYPE_LINKED, TYPE_EMBEDDED} => UnknownFormatId

\* C9: constructing an OleObject from a well-formed OLE 1.0 Object, or
\* calling parse on it, yields ole_version, format_id and the three names as
\* laid out; an Embedded object also yields data_size, exactly data_size
\* payload bytes and the bytes after them as trailing bytes, a Linked object
\* none of the three.
C9_OleObjectDecodesLayout ==
    (/\ op \in {"OleObject", "OleObject.parse"}
     /\ ~stream
     /\ enc.kind = "ole"
     /\ enc.rec.format_id \in {TYPE_LINKED, TYPE_EMBEDDED}
     /\ enc.layout \in {"full", "slack"}) =>
        /\ ret.exc = ""
        /\ ret.obj["ole_version"] = <<enc.rec.ole_version>>
        /\ ret.obj["format_id"] = <<enc.rec.format_id>>
        /\ ret.obj["class_name"] = <<enc.rec.class_name>>
        /\ ret.obj["topic_name"] = <<enc.rec.topic_name>>
        /\ ret.obj["item_name"] = <<enc.rec.item_name>>
        /\ enc.rec.format_id = TYPE_EMBEDDED =>
              /\ ret.obj["data_size"] = <<Len(enc.rec.payload)>>
              /\ ret.obj["data"] = <<enc.rec.payload>>
              /\ ret.obj["extra_data"] =
                     <<IF enc.layout = "slack" THEN <<8, 9>> ELSE <<>>>>
        /\ enc.rec.format_id = TYPE_LINKED =>
              /\ ret.obj["data_size"] = <<>>
              /\ ret.obj["data"] = <<>>
              /\ ret.obj["extra_data"] = <<>>

\* ----------------------------------------------- sanitize_filename claims
\* C10: with the default replacement (and the default max_length),
\* sanitize_filename returns for every input a name that is not empty,
\* holds no path separator and holds no '..'.
C10_SanitizedNameIsSafe ==
    (op = "sanitize_filename" /\ ret.max_length = DEFAULT_MAX_LENGTH) =>
        /\ ret.exc = ""
        /\ ret.value[1] # <<>>
        /\ \A i \in 1 .. Len(ret.value[1]) : ret.value[1][i] # "/"
        /\ ~HasPair(ret.value[1], ".")

\* the last call was sanitize_filename with the default max_length, which
\* cuts none of the names enumerated here
SanitizedUncut ==
    /\ op = "sanitize_filename"
    /\ ret.max_length = DEFAULT_MAX_LENGTH
    /\ Len(ret.value[1]) < DEFAULT_MAX_LENGTH

\* C11: sanitize_filename is idempotent: sanitizing the returned name again
\* (default replacement and max_length, nothing cut) returns it unchanged.
C11_SanitizeIdempotent ==
    SanitizedUncut =>
        sanitize_filename(ret.value[1], DEFAULT_REPLACEMENT, DEFAULT_MAX_LENGTH)
            = ret.value[1]

\* the name sanitize_filename returns for the input when nothing is cut:
\* the result of the call with the default max_length
Untruncated == sanitize_filename(filename, DEFAULT_REPLACEMENT, DEFAULT_MAX_LENGTH)

\* C12 as claimed: for every max_length, 0 included, the returned name is no
\* longer than max_length.
C12_AsClaimed ==
    op = "sanitize_filename" => Len(ret.value[1]) <= ret.max_length

\* C12: for every max_length greater than 0 the returned name is no longer
\* than max_length, and it is the first max_length characters of the name
\* produced by all the other steps, the placeholder for an empty input
\* included; with max_length = 0 nothing is cut.
C12_LengthWithinMaximum ==
    op = "sanitize_filename" =>
        /\ ret.max_length > 0 =>
              /\ Len(ret.value[1]) <= ret.max_length
              /\ ret.value[1] = SubSeq(Untruncated, 1, Min(ret.max_length, Len(Untruncated)))
        /\ ret.max_length = 0 => ret.value[1] = Untruncated

\* the placeholder for an empty input has been cut to one character
C12_Witness ==
    /\ op = "sanitize_filename"
    /\ filename = <<>>
    /\ ret.max_length = 1
    /\ ret.value = <<<<"N">>>>

\* ------------------------------------------ the two kinds of byte source
\* the outcome of the reader the last call ran, on the other kind of byte
\* source over the same bytes, read from the start
OtherKind ==
    LET idx == IF stream THEN 0 ELSE None
    IN  ReadField(op, data, idx, 0)

\* the bytes a successful call r consumed from the start of its source
Consumed(r) == IF r.index = None THEN r.pos ELSE r.index

\* C14: each field reader, run at offset 0 of a bytes string and on a
\* stream over the same bytes, has the same outcome: both calls fail, or
\* both return the same value and consume the same number of bytes.
C14_SameOverBothKinds ==
    (/\ op \in {"read_uint32", "read_uint16", "read_LengthPrefixedAnsiString",
                "read_zero_terminated_ansi_string"}
     /\ CursorBefore = 0) =>
        \/ ret.exc # "" /\ OtherKind.exc # ""
        \/ /\ ret.exc = ""
           /\ OtherKind.exc = ""
           /\ ret.value = OtherKind.value
           /\ Consumed(ret) = Consumed(OtherKind)

====
